---- MODULE Spec2Model ----
(***************************************************************************)
(* relative_world_ollama: the structured-output client.                    *)
(*                                                                         *)
(* PydanticOllamaClient.generate sends a prompt to the transport, extracts *)
(* JSON from the answer with maybe_parse_json, falls back to               *)
(* fix_json_response when extraction raises orjson.JSONDecodeError, and    *)
(* validates the data against the caller's response model.                 *)
(*                                                                         *)
(* A text is a sequence of tokens.  Each token stands for a piece of raw   *)
(* model output:                                                           *)
(*   "Jhello"  {"text":"hello"}                a JSON document             *)
(*   "Jhi"     {"text": "hi"}                  a JSON document             *)
(*   "Jresp"   {"response": "value"}           a JSON document             *)
(*   "Jtool"   {"tool_calls": [{"function_name": "check_weather",          *)
(*              "function_args": {"city": "Paris"}}]}   a JSON document    *)
(*   "Jfence"  "```json\\n{\"text\": \"hi\"}\\n```"   a JSON string whose  *)
(*             content is a json-tagged fenced block (newlines escaped, as *)
(*             JSON requires inside a string)                              *)
(*   "P"       prose such as  here you go:                                 *)
(*   "FO"      the opening fence  ```json<newline>                         *)
(*   "FC"      the closing fence  <newline>```                             *)
(*                                                                         *)
(* The module imports the name re from typing, not the regex module: on    *)
(* Python < 3.13 that is the typing.re namespace (Pattern, Match), on      *)
(* later versions the import fails.  typing_has_re chooses between them.   *)
(***************************************************************************)
EXTENDS Integers, Sequences, FiniteSets, TLC

VARIABLES
    typing_has_re,  \* the interpreter's typing module still exports `re` (Python < 3.13)
    client_module,  \* import state of relative_world_ollama.client
    callers,        \* the call slots in use
    call,           \* per call slot: the coroutine's position and locals
    patched,        \* entity.get_ollama_client is patched with a mock (the tests)
    entity,         \* per entity: its attributes and its last update
    trade           \* the trading example: two actors' inventories and one offer

vars == <<typing_has_re, client_module, callers, call, patched, entity, trade>>

(***************************************************************************)
(* Bounds                                                                  *)
(***************************************************************************)
MaxLen == 3      \* longest transport text, in tokens

MaxFairLen == 2  \* longest transport text under FairSpec, in tokens

MaxConcLen == 1  \* longest transport text under ConcSpec, in tokens

MaxParams == 2   \* most parameters of a callable given to function_to_schema

MaxUpdates == 2  \* most update calls per entity

MaxEntries == 2  \* most entries of an inventory or of one side of an offer

(***************************************************************************)
(* Texts                                                                   *)
(***************************************************************************)
JsonTokens == {"Jhello", "Jhi", "Jresp", "Jtool", "Jfence"}

Tokens == JsonTokens \cup {"P", "FO", "FC"}

SeqsUpTo(n) == UNION {[1..k -> Tokens] : k \in 0..n}

Texts == SeqsUpTo(MaxLen)

ShortTexts == SeqsUpTo(MaxFairLen)

\* the bad_json of a direct fix_json_response call: 'bad_json' and
\* 'here you go: {"text": "hi"}'
BadJsonInputs == {<<"P">>, <<"P", "Jhi">>}

CallIds == {"c1", "c2"}

(***************************************************************************)
(* Python values and call outcomes                                         *)
(***************************************************************************)
PyVal(py, cls, key, val) == [py |-> py, cls |-> cls, key |-> key, val |-> val]

None == PyVal("None", "", "", "")

PyDict(key, val) == PyVal("dict", "", key, val)

PyStr(val) == PyVal("str", "", "", val)

Instance(cls, data) == PyVal("instance", cls, data.key, data.val)

\* A call either returns a value or raises an exception; `text` is the text an
\* exception was constructed with, `searched` whether re.search was evaluated.
Return(value, searched) ==
    [kind |-> "return", exc |-> "", value |-> value, text |-> <<>>,
     searched |-> searched]

Raise(exc, text, searched) ==
    [kind |-> "raise", exc |-> exc, value |-> None, text |-> text,
     searched |-> searched]

NoOutcome ==
    [kind |-> "none", exc |-> "", value |-> None, text |-> <<>>,
     searched |-> FALSE]

(***************************************************************************)
(* Response models                                                         *)
(***************************************************************************)
Schemas == {"BasicResponse", "TestGenerateResponse"}

\* the single required str field of each model
SchemaField(cls) ==
    IF cls = "BasicResponse" THEN "text" ELSE "response"

\* response_model.model_validate(data)
model_validate(cls, data) ==
    IF data.py = "dict" /\ data.key = SchemaField(cls)
    THEN Return(Instance(cls, data), FALSE)
    ELSE Raise("ValidationError", <<>>, FALSE)

(***************************************************************************)
(* orjson.loads                                                            *)
(***************************************************************************)
token_value(tok) ==
    CASE tok = "Jhello" -> PyDict("text", "hello")
      [] tok = "Jhi"    -> PyDict("text", "hi")
      [] tok = "Jresp"  -> PyDict("response", "value")
      [] tok = "Jtool"  -> PyDict("tool_calls", "check_weather(city=Paris)")
      [] tok = "Jfence" -> PyStr("fenced block holding text hi")
      [] OTHER          -> None

\* Mutation of orjson_loads: a JSON document is returned as the str it is
\* written in, not parsed.
orjson_loads_unparsed(content) ==
    IF Len(content) = 1 /\ content[1] \in JsonTokens
    THEN [ok |-> TRUE, value |-> PyStr(content[1])]
    ELSE [ok |-> FALSE, value |-> None]

\* Strict parse of the whole text: exactly one JSON document, nothing else.
orjson_loads(content) ==
    IF Len(content) = 1 /\ content[1] \in JsonTokens
    THEN [ok |-> TRUE, value |-> token_value(content[1])]
    ELSE [ok |-> FALSE, value |-> None]

(***************************************************************************)
(* maybe_parse_json                                                        *)
(***************************************************************************)
\* `from typing import Type, AsyncIterator, re` binds the name re to the
\* typing.re namespace, whose only attributes are Pattern and Match.
re_attributes == {"Pattern", "Match"}

MinOf(S) == CHOOSE x \in S : \A y \in S : x <= y

MaxOf(S) == CHOOSE x \in S : \A y \in S : x >= y

\* A search for '```json\n(.*)\n```' with DOTALL: the leftmost opening fence
\* that has a closing fence after it, and, (.*) being greedy, the LAST closing
\* fence of the text; group1 is everything in between.
regex_search(content) ==
    LET opens  == {i \in 1..Len(content) : content[i] = "FO"}
        closes == {j \in 1..Len(content) : content[j] = "FC"}
    IN  IF \E i \in opens : \E j \in closes : i < j
        THEN [found |-> TRUE,
              group1 |-> SubSeq(content, MinOf(opens) + 1, MaxOf(closes) - 1)]
        ELSE [found |-> FALSE, group1 |-> <<>>]

\* except-branch of maybe_parse_json: evaluating re.search looks the attribute
\* up on the object bound to re and raises AttributeError when it is missing;
\* otherwise the fenced content is parsed, and a text without a fence falls off
\* the end of the function (returns None).
fence_fallback(content) ==
    IF "search" \notin re_attributes
    THEN Raise("AttributeError", <<>>, TRUE)
    ELSE LET m == regex_search(content)
         IN  IF m.found
             THEN LET inner == orjson_loads(m.group1)
                  IN  IF inner.ok
                      THEN Return(inner.value, TRUE)
                      ELSE Raise("JSONDecodeError", <<>>, TRUE)
             ELSE Return(None, TRUE)

\* Mutation of maybe_parse_json: the fence search comes before the direct parse.
maybe_parse_json_fence_first(content) ==
    LET fenced == fence_fallback(content)
        direct == orjson_loads(content)
    IN  IF fenced.kind = "return" /\ fenced.value # None
        THEN fenced
        ELSE IF direct.ok
        THEN Return(direct.value, TRUE)
        ELSE fenced

maybe_parse_json(content) ==
    LET direct == orjson_loads(content)
    IN  IF direct.ok
        THEN Return(direct.value, FALSE)
        ELSE fence_fallback(content)

(***************************************************************************)
(* Tools: the catalog and call_tool                                        *)
(***************************************************************************)
\* The catalog tools[name]._callable: check_weather(city) returns a string,
\* boom(city) raises ValueError, quit(city) calls sys.exit; fetch_forecast
\* and fetch_boom are declared `async def`.
AsyncTools == {"fetch_forecast", "fetch_boom"}

CatalogNames == {"check_weather", "boom", "quit"} \cup AsyncTools

\* the coroutine object that calling an `async def` function returns
Coroutine(name) == PyVal("coroutine", name, "", "")

\* what awaiting Coroutine(name) gives: fetch_forecast returns a string,
\* fetch_boom raises ValueError
awaited(name) ==
    IF name = "fetch_forecast" THEN [kind |-> "return", exc |-> "", value |-> PyStr("rainy in Paris")]
    ELSE [kind |-> "raise", exc |-> "ValueError", value |-> None]

\* the exceptions that derive from Exception; SystemExit, KeyboardInterrupt,
\* GeneratorExit and asyncio.CancelledError derive from BaseException only
ExceptionClasses == {"KeyError", "TypeError", "ValueError"}

ToolCallRequest(name, args) == [function_name |-> name, function_args |-> args]

\* the requests a model may produce: a catalog tool or an unknown one, with
\* arguments that fit the signature (city=...) or do not
ToolCallRequests ==
    {ToolCallRequest(name, args) :
        name \in CatalogNames \cup {"unknown_tool"},
        args \in {"city=Paris", "town=Paris"}}

NoToolCall == ToolCallRequest("", "")

ToolCallResponse(tool_call, result) == [tool_call |-> tool_call, result |-> result]

NoToolResponse == ToolCallResponse(NoToolCall, None)

\* traceback.format_exc() for the exception being handled
format_exc(exc) == PyVal("str", "traceback", exc, "Traceback (most recent call last): ...")

\* function(**function_args): binding arguments that do not fit the signature
\* raises TypeError, otherwise the body runs; the body of an `async def`
\* function does not run at the call, which returns its coroutine object
invoke(name, args) ==
    IF args # "city=Paris" THEN Raise("TypeError", <<>>, FALSE)
    ELSE IF name = "check_weather" THEN Return(PyStr("sunny in Paris"), FALSE)
    ELSE IF name = "boom" THEN Raise("ValueError", <<>>, FALSE)
    ELSE IF name \in AsyncTools THEN Return(Coroutine(name), FALSE)
    ELSE Raise("SystemExit", <<>>, FALSE)

\* Mutation of call_tool: the try has no except clause for the invocation, only
\* the lookup failure is captured.
call_tool_uncaught(catalog, tool_call) ==
    IF tool_call.function_name \notin catalog
    THEN [outcome |-> Return(None, FALSE),
          response |-> ToolCallResponse(tool_call, format_exc("KeyError")),
          invocations |-> <<>>]
    ELSE LET out == invoke(tool_call.function_name, tool_call.function_args)
         IN  [outcome |-> out,
              response |-> IF out.kind = "return"
                           THEN ToolCallResponse(tool_call, out.value)
                           ELSE NoToolResponse,
              invocations |-> <<tool_call>>]

\* Mutation of call_tool: a request for an unknown tool falls back to the first
\* tool of the catalog.
call_tool_default_tool(catalog, tool_call) ==
    LET name == IF tool_call.function_name \in catalog
                THEN tool_call.function_name ELSE "check_weather"
        out  == invoke(name, tool_call.function_args)
    IN  [outcome |-> Return(None, FALSE),
         response |-> ToolCallResponse(tool_call,
                          IF out.kind = "return" THEN out.value
                          ELSE format_exc(out.exc)),
         invocations |-> <<ToolCallRequest(name, tool_call.function_args)>>]

\* Mutation of call_tool: the result is rendered as text before it is stored.
call_tool_stringified(catalog, tool_call) ==
    IF tool_call.function_name \notin catalog
    THEN [outcome |-> Return(None, FALSE),
          response |-> ToolCallResponse(tool_call, format_exc("KeyError")),
          invocations |-> <<>>]
    ELSE LET out == invoke(tool_call.function_name, tool_call.function_args)
         IN  [outcome |-> Return(None, FALSE),
              response |-> ToolCallResponse(tool_call,
                               IF out.kind = "return"
                               THEN PyStr("str(result)")
                               ELSE format_exc(out.exc)),
              invocations |-> <<tool_call>>]

\* call_tool(tools, tool_call): lookup and invocation inside try; `except
\* Exception` turns a failure into its traceback text; anything else the
\* callable raises propagates.  `outcome` is how call_tool itself ends,
\* `response` the ToolCallResponse it returns, `invocations` the calls made.
call_tool(catalog, tool_call) ==
    IF tool_call.function_name \notin catalog
    THEN [outcome |-> Return(None, FALSE),
          response |-> ToolCallResponse(tool_call, format_exc("KeyError")),
          invocations |-> <<>>]
    ELSE LET out == invoke(tool_call.function_name, tool_call.function_args)
         IN  IF out.kind = "raise" /\ out.exc \notin ExceptionClasses
             THEN [outcome |-> out,
                   response |-> NoToolResponse,
                   invocations |-> <<tool_call>>]
             ELSE [outcome |-> Return(None, FALSE),
                   response |-> ToolCallResponse(tool_call,
                                    IF out.kind = "return" THEN out.value
                                    ELSE format_exc(out.exc)),
                   invocations |-> <<tool_call>>]

(***************************************************************************)
(* Tools: function_to_schema and tools_to_schema                           *)
(***************************************************************************)
\* What a parameter annotation may be: a type py_type_to_param_type knows, no
\* annotation (inspect.Parameter.empty), a class of the application, or an
\* annotation object that has no __name__ (`str | None`, or the string a
\* postponed annotation is).
Annotations == {"str", "int", "empty", "Location", "union"}

Parameter(name, has_default, annotation) ==
    [name |-> name, has_default |-> has_default, annotation |-> annotation]

\* self; actor, required or with a default; city and units, required or
\* with a default, under every annotation
Parameters ==
    {Parameter("self", FALSE, "empty")}
    \cup {Parameter("actor", d, "empty") : d \in BOOLEAN}
    \cup {Parameter(n, d, a) : n \in {"city", "units"}, d \in BOOLEAN, a \in Annotations}

\* inspect.signature(function).parameters: parameters in order, names distinct
Signatures ==
    {sig \in UNION {[1..k -> Parameters] : k \in 0..MaxParams} :
        \A i, j \in DOMAIN sig : sig[i].name = sig[j].name => i = j}

\* A callable: a function (or bound method) with or without docstring, or a
\* functools.partial object, which has a signature but no __name__.
Callable(kind, has_doc, params) ==
    [kind |-> kind, has_doc |-> has_doc, params |-> params,
     __name__ |-> "check_weather"]

\* the callable defined under another name
Named(name, function) == [function EXCEPT !.__name__ = name]

Callables ==
    {Callable("function", d, sig) : d \in BOOLEAN, sig \in Signatures}
    \cup {Callable("partial", FALSE, sig) : sig \in Signatures}

NoCallable == Callable("none", FALSE, <<>>)

ImplicitParams == {"self", "actor"}

py_type_to_param_type(annotation) ==
    CASE annotation = "str"  -> "string"
      [] annotation = "int"  -> "integer"
      [] OTHER               -> "string"

\* annotation.__name__, where the annotation has one
annotation_name(annotation) ==
    IF annotation = "empty" THEN "_empty" ELSE annotation

has_name(annotation) == annotation # "union"

\* an operator gives this in place of a value when the function raises
IsError(obj) == "error" \in DOMAIN obj

AttributeError == [error |-> "AttributeError"]

NoSchema == [error |-> "none"]

RECURSIVE required_names(_, _)
\* the loop over signature.parameters.items(): the names of the parameters
\* without default that are not among `implicit`, appended in order
required_names(sig, implicit) ==
    IF sig = <<>> THEN <<>>
    ELSE LET rest == required_names(Tail(sig), implicit)
         IN  IF ~Head(sig).has_default /\ Head(sig).name \notin implicit
             THEN <<Head(sig).name>> \o rest
             ELSE rest

\* Mutation of function_to_schema: only `self` is left out.
function_to_schema_keeps_actor(function) ==
    LET listed == {q \in {function.params[i] : i \in DOMAIN function.params} :
                      q.name # "self"}
    IN  IF function.kind # "function" \/ \E q \in listed : ~has_name(q.annotation)
        THEN AttributeError
        ELSE [name |-> function.__name__,
              description |-> IF function.has_doc THEN "function.__doc__" ELSE "",
              parameters |-> [n \in {q.name : q \in listed} |->
                                LET q == CHOOSE q \in listed : q.name = n
                                IN  [type |-> py_type_to_param_type(q.annotation),
                                     description |-> annotation_name(q.annotation)]],
              required |-> required_names(function.params, {"self"})]

\* function_to_schema(function): the FunctionSchemaFunction it builds, or the
\* AttributeError raised by function.__name__ of an object without that
\* attribute or by parameter.annotation.__name__ of such an annotation
function_to_schema(function) ==
    LET listed == {q \in {function.params[i] : i \in DOMAIN function.params} :
                      q.name \notin ImplicitParams}
    IN  IF function.kind # "function" \/ \E q \in listed : ~has_name(q.annotation)
        THEN AttributeError
        ELSE [name |-> function.__name__,
              description |-> IF function.has_doc THEN "function.__doc__" ELSE "",
              parameters |-> [n \in {q.name : q \in listed} |->
                                LET q == CHOOSE q \in listed : q.name = n
                                IN  [type |-> py_type_to_param_type(q.annotation),
                                     description |-> annotation_name(q.annotation)]],
              required |-> required_names(function.params, ImplicitParams)]

\* Callables a catalog is built from: check_weather(city: str) with a
\* docstring; a function without hints or docstring; a method move whose
\* second parameter has a default and an application class as annotation; a
\* function annotated `city: str | None`; a functools.partial object.
SampleCallables ==
    {Callable("function", TRUE, <<Parameter("city", FALSE, "str")>>),
     Callable("function", FALSE, <<Parameter("city", FALSE, "empty")>>),
     Named("move", Callable("function", TRUE, <<Parameter("self", FALSE, "empty"),
                                                 Parameter("units", TRUE, "Location")>>)),
     Callable("function", TRUE, <<Parameter("city", FALSE, "union")>>),
     Callable("partial", FALSE, <<Parameter("city", FALSE, "str")>>)}

\* the mappings of names to callables given to tools_to_schema
ToolMappings ==
    UNION {[names -> SampleCallables] : names \in SUBSET {"check_weather", "move"}}

\* tools_to_schema(tools): one descriptor per name, or the error the first
\* failing function_to_schema raises
tools_to_schema(tools) ==
    LET result == [name \in DOMAIN tools |-> function_to_schema(tools[name])]
    IN  IF \E name \in DOMAIN tools : IsError(result[name])
        THEN AttributeError
        ELSE result

(***************************************************************************)
(* JSON schemas and inline_json_schema_defs                                *)
(***************************************************************************)
\* JSON data as Python holds it: a str (kept as its "/"-separated segments),
\* a dict (a function from keys to values) or a list (a sequence)
JStr(segments) == [str |-> segments]

JDict(items) == [dict |-> items]

JList(items) == [list |-> items]

IsDict(obj) == "dict" \in DOMAIN obj

IsList(obj) == "list" \in DOMAIN obj

EmptyDict == JDict(<<>>)

\* {"type": "string"}
StringType == JDict("type" :> JStr(<<"string">>))

\* {"$ref": "#/$defs/<name>"}
Ref(name) == JDict("$ref" :> JStr(<<"#", "$defs", name>>))

\* {"type": "object", "properties": {"item": inner}}
ObjectOf(inner) ==
    JDict("type" :> JStr(<<"object">>) @@ "properties" :> JDict("item" :> inner))

\* {"anyOf": [inner, {"type": "string"}]}
AnyOf(inner) == JDict("anyOf" :> JList(<<inner, StringType>>))

\* the names definitions have, and a name no $defs holds
DefNames == {"A", "B"}

RefNames == DefNames \cup {"Missing"}

\* what a property or a definition body may be: a plain type or a ref, bare,
\* inside a nested object or inside a list
Fragments ==
    LET leaves == {StringType} \cup {Ref(n) : n \in RefNames}
    IN  leaves \cup {ObjectOf(x) : x \in leaves} \cup {AnyOf(x) : x \in leaves}

\* the bodies of the definitions A and B: B is a plain type, refers to A or
\* dangles; A is any fragment, so A may refer to B, to itself or to nothing
DefBodies ==
    {("A" :> a @@ "B" :> b) :
        a \in Fragments, b \in {StringType, ObjectOf(Ref("A")), Ref("Missing")}}

\* The schemas given to inline_json_schema_defs: an object schema with one
\* property, or a schema that is itself a ref, with $defs or without
SchemaInputs ==
    LET heads == {JDict("properties" :> JDict("x" :> f)) : f \in {StringType, Ref("A"), AnyOf(Ref("B")), ObjectOf(Ref("A")), Ref("Missing")}}
                 \cup {Ref("A")}
    IN  heads \cup {JDict(h.dict @@ "$defs" :> JDict(d)) : h \in heads, d \in DefBodies}

\* The depth of calls at which the interpreter raises RecursionError; no
\* schema without a reference cycle comes near it.
RecursionLimit == 16

RecursionError == [error |-> "RecursionError"]

KeyError == [error |-> "KeyError"]

\* the first error among the resolved children, if any
FirstError(children) ==
    IF \E k \in DOMAIN children : IsError(children[k])
    THEN children[CHOOSE k \in DOMAIN children : IsError(children[k])]
    ELSE EmptyDict

\* obj["$ref"].split("/")[-1]
ref_key(obj) == LET pointer == obj.dict["$ref"].str IN pointer[Len(pointer)]

\* defs.get(ref_key, {})
defs_get(defs, key) ==
    IF key \in DOMAIN defs.dict THEN defs.dict[key] ELSE EmptyDict

RECURSIVE resolve_refs_skips_lists(_, _, _)
\* Mutation of resolve_refs: lists are returned as they are.
resolve_refs_skips_lists(obj, defs, depth) ==
    IF depth >= RecursionLimit THEN RecursionError
    ELSE IF IsDict(obj)
    THEN IF "$ref" \in DOMAIN obj.dict
         THEN resolve_refs_skips_lists(defs_get(defs, ref_key(obj)), defs, depth + 1)
         ELSE LET children == [k \in DOMAIN obj.dict |->
                                  resolve_refs_skips_lists(obj.dict[k], defs, depth + 1)]
              IN  IF IsError(FirstError(children)) THEN FirstError(children)
                  ELSE JDict(children)
    ELSE obj

RECURSIVE resolve_refs_shallow(_, _, _)
\* Mutation of resolve_refs: a definition is substituted as it is, the refs
\* inside it are left.
resolve_refs_shallow(obj, defs, depth) ==
    IF depth >= RecursionLimit THEN RecursionError
    ELSE IF IsDict(obj)
    THEN IF "$ref" \in DOMAIN obj.dict
         THEN defs_get(defs, ref_key(obj))
         ELSE LET children == [k \in DOMAIN obj.dict |->
                                  resolve_refs_shallow(obj.dict[k], defs, depth + 1)]
              IN  IF IsError(FirstError(children)) THEN FirstError(children)
                  ELSE JDict(children)
    ELSE IF IsList(obj)
    THEN LET children == [i \in DOMAIN obj.list |->
                             resolve_refs_shallow(obj.list[i], defs, depth + 1)]
         IN  IF IsError(FirstError(children)) THEN FirstError(children)
             ELSE JList(children)
    ELSE obj

RECURSIVE resolve_refs_strict(_, _, _)
\* Mutation of resolve_refs: the definition is looked up with defs[ref_key].
resolve_refs_strict(obj, defs, depth) ==
    IF depth >= RecursionLimit THEN RecursionError
    ELSE IF IsDict(obj)
    THEN IF "$ref" \in DOMAIN obj.dict
         THEN IF ref_key(obj) \in DOMAIN defs.dict
              THEN resolve_refs_strict(defs.dict[ref_key(obj)], defs, depth + 1)
              ELSE KeyError
         ELSE LET children == [k \in DOMAIN obj.dict |->
                                  resolve_refs_strict(obj.dict[k], defs, depth + 1)]
              IN  IF IsError(FirstError(children)) THEN FirstError(children)
                  ELSE JDict(children)
    ELSE IF IsList(obj)
    THEN LET children == [i \in DOMAIN obj.list |->
                             resolve_refs_strict(obj.list[i], defs, depth + 1)]
         IN  IF IsError(FirstError(children)) THEN FirstError(children)
             ELSE JList(children)
    ELSE obj

RECURSIVE resolve_refs(_, _, _)
\* resolve_refs(obj), called at the given depth of the call stack: a dict with
\* a "$ref" key becomes the resolved definition (an empty dict when $defs has
\* no such name), any other dict and any list is rebuilt from its resolved
\* members, anything else is returned as it is.  A chain of definitions that
\* refers back to itself recurses until the interpreter raises RecursionError.
resolve_refs(obj, defs, depth) ==
    IF depth >= RecursionLimit THEN RecursionError
    ELSE IF IsDict(obj)
    THEN IF "$ref" \in DOMAIN obj.dict
         THEN resolve_refs(defs_get(defs, ref_key(obj)), defs, depth + 1)
         ELSE LET children == [k \in DOMAIN obj.dict |->
                                  resolve_refs(obj.dict[k], defs, depth + 1)]
              IN  IF IsError(FirstError(children)) THEN FirstError(children)
                  ELSE JDict(children)
    ELSE IF IsList(obj)
    THEN LET children == [i \in DOMAIN obj.list |->
                             resolve_refs(obj.list[i], defs, depth + 1)]
         IN  IF IsError(FirstError(children)) THEN FirstError(children)
             ELSE JList(children)
    ELSE obj

\* schema.pop("$defs", {}): the definitions, and the schema left without them
schema_pop_defs(schema) ==
    IF "$defs" \in DOMAIN schema.dict
    THEN [defs |-> schema.dict["$defs"],
          rest |-> JDict([k \in DOMAIN schema.dict \ {"$defs"} |-> schema.dict[k]])]
    ELSE [defs |-> EmptyDict, rest |-> schema]

\* inline_json_schema_defs(schema): what it returns, or the error it raises
inline_json_schema_defs(schema) ==
    LET popped == schema_pop_defs(schema)
    IN  resolve_refs(popped.rest, popped.defs, 0)

(***************************************************************************)
(* Calls: generate, fix_json_response and maybe_parse_json as coroutines   *)
(***************************************************************************)
\* kwargs: the keyword arguments of the call besides prompt, system and
\* response_model; given_history: the previous_tool_invocations passed;
\* history: the tool-invocation history the call works with; outstanding: the
\* transport requests of the call that are in flight.
IdleCall ==
    [op |-> "none", pc |-> "idle", response_model |-> "BasicResponse",
     kwargs |-> {}, given_history |-> <<>>, history |-> <<>>,
     bad_json |-> <<>>, response_text |-> <<>>, repair_text |-> <<>>,
     extract |-> NoOutcome, result |-> NoOutcome,
     n_primary |-> 0, n_repair |-> 0,
     outstanding |-> 0, transport_failed |-> FALSE,
     tool_call |-> NoToolCall, tool_response |-> NoToolResponse,
     invocations |-> <<>>, requests |-> <<>>,
     schema |-> EmptyDict, schema_after |-> EmptyDict, inlined |-> EmptyDict,
     function |-> NoCallable, function_schema |-> NoSchema,
     tools |-> <<>>, catalog |-> <<>>,
     prompt |-> <<>>, system |-> <<>>]

\* the model identifiers of the settings, each configurable on its own, and a
\* model identifier a caller passes as model=
default_model == "settings.default_model"

json_fix_model == "settings.json_fix_model"

CallerModel == "caller model"

\* The prompt and the system text callers pass to generate.
CallerTexts ==
    {[prompt |-> <<"Say", "hello">>, system |-> <<"You", "are", "terse">>],
     [prompt |-> <<"Trade?">>, system |-> <<"You", "are", "a", "trader">>]}

\* response_model.model_json_schema() of the models with one str field
model_json_schema(cls) ==
    JDict("properties" :> JDict(SchemaField(cls) :> StringType)
          @@ "required" :> JList(<<JStr(<<SchemaField(cls)>>)>>)
          @@ "title" :> JStr(<<cls>>)
          @@ "type" :> JStr(<<"object">>))

\* one part of a system message: literal text of the module, text of the
\* caller, or a JSON schema written out by orjson.dumps
Section(kind, body) == [kind |-> kind, body |-> body]

\* "Only respond with json content, any text outside of the structure will
\* break the system. The structured output format should match this json
\* schema:"
JsonOnlyInstruction == Section("literal", JStr(<<"JSON_ONLY_INSTRUCTION">>))

\* FIX_JSON_SYSTEM_PROMPT up to its placeholder
FixJsonInstruction == Section("literal", JStr(<<"FIX_JSON_SYSTEM_PROMPT">>))

\* TOOL_CALLING_SYSTEM_PROMPT
ToolCallingInstruction == Section("literal", JStr(<<"TOOL_CALLING_SYSTEM_PROMPT">>))

\* orjson.dumps(inline_json_schema_defs(response_model.model_json_schema()))
output_schema(cls) == Section("schema", inline_json_schema_defs(model_json_schema(cls)))

\* system_message of generate: the caller's system text, the JSON-only
\* instruction, the schema
system_message(system, cls) ==
    <<Section("caller", JStr(system)), JsonOnlyInstruction, output_schema(cls)>>

\* system_prompt of fix_json_response
system_prompt(cls) == <<FixJsonInstruction, output_schema(cls)>>

\* model or self.default_model: None and the empty str select the default
model_or_default(model) ==
    IF model \in {"None", ""} THEN default_model ELSE model

\* one call of the transport: the model, the prompt and the system message
\* sent, and the tool-invocation history rendered into that system message;
\* client.generate is called with model, prompt, system and keep_alive, never
\* with a context
TransportRequest(model, prompt, system, rendered) ==
    [model |-> model, prompt |-> prompt, system |-> system,
     rendered |-> rendered, context |-> "not sent"]

\* generate's request, for a call bound to its arguments: the caller's prompt,
\* and the caller's system text followed by the JSON-only instruction and the
\* schema; no history is rendered
PrimaryRequest(rec) ==
    TransportRequest(
        model_or_default(IF "model" \in rec.kwargs THEN CallerModel ELSE "None"),
        rec.prompt, system_message(rec.system, rec.response_model), <<>>)

\* fix_json_response's request: the bad text as prompt under the system
\* prompt, to settings.json_fix_model
RepairRequest(rec, bad_json) ==
    TransportRequest(json_fix_model, bad_json, system_prompt(rec.response_model), <<>>)

Awaiting == {"await_primary", "await_repair"}

Terminal == {"returned", "raised"}

\* the call ends with outcome `out`
Finish(rec, out) ==
    [rec EXCEPT !.result = out,
                !.pc = IF out.kind = "return" THEN "returned" ELSE "raised"]

\* fix_json_response up to its await: the repair request goes out
fix_json_response_request(rec, bad_json) ==
    [rec EXCEPT !.bad_json = bad_json,
                !.n_repair = @ + 1,
                !.outstanding = @ + 1,
                !.requests = Append(@, RepairRequest(rec, bad_json)),
                !.pc = "await_repair"]

\* fix_json_response after its await: extraction of the repair output; only
\* orjson.JSONDecodeError is turned into UnparsableResponseError(bad_json)
fix_json_response_result(bad_json, repair_text) ==
    LET ex == maybe_parse_json(repair_text)
    IN  IF ex.kind = "raise" /\ ex.exc = "JSONDecodeError"
        THEN Raise("UnparsableResponseError", bad_json, ex.searched)
        ELSE ex

\* Mutation of generate_return: the instance is constructed without validation.
generate_return_unvalidated(response_model, data) ==
    Return(Instance(response_model, data), FALSE)

\* the last statement of generate: return response_model.model_validate(data)
generate_return(response_model, data) ==
    model_validate(response_model, data)

\* Mutation of generate_after_primary: every primary response is sent to repair.
generate_after_primary_always_repairs(rec, text) ==
    fix_json_response_request(
        [rec EXCEPT !.response_text = text, !.extract = maybe_parse_json(text),
                    !.outstanding = @ - 1],
        text)

\* Mutation of generate_after_primary: a failed extraction re-issues the
\* primary request (up to three requests) instead of ending the call.
generate_after_primary_retrying(rec, text) ==
    LET ex  == maybe_parse_json(text)
        got == [rec EXCEPT !.response_text = text, !.extract = ex,
                           !.outstanding = @ - 1]
    IN  IF ex.kind = "return"
        THEN Finish(got, generate_return(rec.response_model, ex.value))
        ELSE IF rec.n_primary < 3
        THEN [got EXCEPT !.n_primary = @ + 1, !.outstanding = @ + 1,
                         !.requests = Append(@, PrimaryRequest(rec)),
                         !.pc = "await_primary"]
        ELSE Finish(got, ex)

\* Mutation of generate_after_primary: the response is kept in an attribute
\* of the client that every call writes, and read back from it after the
\* await, so a call may extract what another call received.
generate_after_primary_shared_response(rec, text) ==
    LET others == {d \in CallIds : call[d].op = "generate"
                                    /\ call[d].response_text # <<>>}
        seen == IF others = {} THEN text
                ELSE call[CHOOSE d \in others : TRUE].response_text
        ex  == maybe_parse_json(seen)
        got == [rec EXCEPT !.response_text = text, !.extract = ex,
                           !.outstanding = @ - 1]
    IN  IF ex.kind = "return"
        THEN Finish(got, generate_return(rec.response_model, ex.value))
        ELSE IF ex.exc = "JSONDecodeError"
        THEN fix_json_response_request(got, seen)
        ELSE Finish(got, ex)

\* Mutation of generate_after_primary: data that fails validation is sent to
\* the repair call like text that fails extraction.
generate_after_primary_repairs_invalid(rec, text) ==
    LET ex  == maybe_parse_json(text)
        got == [rec EXCEPT !.response_text = text, !.extract = ex,
                           !.outstanding = @ - 1]
    IN  IF ex.kind = "return"
        THEN IF generate_return(rec.response_model, ex.value).kind = "return"
             THEN Finish(got, generate_return(rec.response_model, ex.value))
             ELSE fix_json_response_request(got, text)
        ELSE IF ex.exc = "JSONDecodeError"
        THEN fix_json_response_request(got, text)
        ELSE Finish(got, ex)

\* generate after the primary await: extraction, then either validation, the
\* repair call (on orjson.JSONDecodeError only) or the propagated exception
generate_after_primary(rec, text) ==
    LET ex  == maybe_parse_json(text)
        got == [rec EXCEPT !.response_text = text, !.extract = ex,
                           !.outstanding = @ - 1]
    IN  IF ex.kind = "return"
        THEN Finish(got, generate_return(rec.response_model, ex.value))
        ELSE IF ex.exc = "JSONDecodeError"
        THEN fix_json_response_request(got, text)
        ELSE Finish(got, ex)

\* the call resumed by the repair response
after_repair(rec, text) ==
    LET fixed == fix_json_response_result(rec.bad_json, text)
        got   == [rec EXCEPT !.repair_text = text, !.outstanding = @ - 1]
    IN  IF rec.op = "generate" /\ fixed.kind = "return"
        THEN Finish(got, generate_return(rec.response_model, fixed.value))
        ELSE Finish(got, fixed)

\* The keyword parameters of generate besides prompt, system and
\* response_model.
GenerateParams == {"model"}

\* What callers pass besides prompt, system and response_model: nothing,
\* model=, context=, tools=, context= and tools=, tools= and
\* previous_tool_invocations=.
CallerKwargs ==
    {{}, {"model"}, {"context"}, {"tools"}, {"context", "tools"},
     {"tools", "previous_tool_invocations"}}

\* The calls of generate callers make: each choice of keyword arguments with
\* one prompt and system text, the call that passes model= with the trader's
\* texts and the others with the terse ones.
CallerArguments ==
    {args \in [kwargs : CallerKwargs, texts : CallerTexts] :
        "model" \in args.kwargs <=> args.texts.prompt = <<"Trade?">>}

\* the one earlier ToolCallResponse a caller may pass as previous_tool_invocations
PriorInvocations == <<"check_weather(city=Berlin) -> rainy">>

\* Mutation of generate_call: the repair request is sent along with the
\* primary request instead of after its response.
generate_call_eager_repair(rec, response_model, kwargs) ==
    LET bound == [rec EXCEPT !.op = "generate",
                             !.response_model = response_model,
                             !.kwargs = kwargs]
    IN  [bound EXCEPT !.n_primary = @ + 1,
                      !.n_repair = @ + 1,
                      !.outstanding = @ + 2,
                      !.requests = @ \o <<PrimaryRequest(bound),
                                          RepairRequest(bound, <<>>)>>,
                      !.pc = "await_primary"]

\* Calling generate: a keyword argument that is no parameter of generate makes
\* the call raise TypeError before the body runs; otherwise the body runs up
\* to the await of ollama_generate, where the primary request goes out.
generate_call(rec, response_model, kwargs) ==
    LET given == IF "previous_tool_invocations" \in kwargs
                 THEN PriorInvocations ELSE <<>>
        bound == [rec EXCEPT !.op = "generate",
                             !.response_model = response_model,
                             !.kwargs = kwargs,
                             !.given_history = given]
    IN  IF ~(kwargs \subseteq GenerateParams)
        THEN Finish(bound, Raise("TypeError", <<>>, FALSE))
        ELSE [bound EXCEPT !.n_primary = @ + 1,
                           !.outstanding = @ + 1,
                           !.requests = Append(@, PrimaryRequest(bound)),
                           !.pc = "await_primary"]

\* Mutation of transport_failure: the failure is reported as
\* UnparsableResponseError.
transport_failure_as_unparsable(rec) ==
    Finish([rec EXCEPT !.outstanding = @ - 1, !.transport_failed = TRUE],
           Raise("UnparsableResponseError", rec.bad_json, FALSE))

\* The awaited client.generate raises: neither ollama_generate nor
\* fix_json_response (whose try covers maybe_parse_json only) nor generate
\* catches it, so the call ends with that error.
transport_failure(rec) ==
    Finish([rec EXCEPT !.outstanding = @ - 1, !.transport_failed = TRUE],
           Raise("TransportError", <<>>, FALSE))

(***************************************************************************)
(* Entities: OllamaEntity and TooledOllamaEntity                           *)
(***************************************************************************)
EntityIds == {"e1", "e2"}

\* The classes entities are made of.  "TooledOllamaEntity" stands for a direct
\* subclass of it that defines a @tool method move, as WanderingActor of the
\* examples does; "Explorer" is a subclass of that class with a @tool method
\* look of its own.
EntityClasses == {"OllamaEntity", "TooledOllamaEntity", "Explorer"}

\* the classes whose __init__ is TooledOllamaEntity.__init__
TooledClasses == {"TooledOllamaEntity", "Explorer"}

\* cls.__dict__ as far as its callables go: the methods defined in the body of
\* the class itself, each with whether @tool has set _is_tool on it
ClassDict(cls) ==
    CASE cls = "TooledOllamaEntity" -> ("move" :> TRUE @@ "get_prompt" :> FALSE)
      [] cls = "Explorer"           -> ("look" :> TRUE @@ "handle_response" :> FALSE)
      [] OTHER                      -> ("get_prompt" :> FALSE @@ "handle_response" :> FALSE)

\* the classes a class inherits from
BaseClasses(cls) ==
    CASE cls = "Explorer"           -> {"TooledOllamaEntity", "OllamaEntity"}
      [] cls = "TooledOllamaEntity" -> {"OllamaEntity"}
      [] OTHER                      -> {}

\* the keys of cls.__dict__ whose value is callable and has _is_tool
OwnToolKeys(cls) == {key \in DOMAIN ClassDict(cls) : ClassDict(cls)[key]}

\* the @tool methods a class inherits without defining them itself
InheritedToolKeys(cls) ==
    UNION {OwnToolKeys(base) : base \in BaseClasses(cls)} \ DOMAIN ClassDict(cls)

\* the context the mock of the tests returns: AsyncMock(context=[1, 2, 3])
MockContext == "[1, 2, 3]"

NoClient == [kind |-> "unset", serial |-> 0]

NoTools == [schemas |-> <<>>, bound_to |-> "none"]

\* the @tool method of the entity class, as getattr(self, key) gives it: a
\* bound method, whose signature has no self
ToolMethod == Named("move", Callable("function", TRUE, <<Parameter("city", FALSE, "str")>>))

\* getattr(self, key) for a method of the class
BoundMethod(key) == Named(key, ToolMethod)

NoUpdate ==
    [outcome |-> "none", context_before |-> "None", given_context |-> "None",
     given_tools |-> NoTools, raw_context |-> "None", client |-> NoClient,
     generation |-> IdleCall,
     handled |-> FALSE, context_at_handle |-> "None", yielded |-> FALSE]

NoEntity ==
    [cls |-> "none", _context |-> "None", ollama_client |-> NoClient,
     factory_calls |-> 0, _tools |-> NoTools, updates |-> 0, last |-> NoUpdate,
     pc |-> "idle"]

\* get_ollama_client(): a new PydanticOllamaClient, or under the tests' patch
\* the mock client; `serial` tells the objects of successive calls apart
get_ollama_client(serial) ==
    [kind |-> IF patched THEN "AsyncMock" ELSE "PydanticOllamaClient",
     serial |-> serial]

\* Mutation of ollama_client: a plain property, evaluated at every access.
ollama_client_uncached(ent) ==
    [ent EXCEPT !.factory_calls = @ + 1,
                !.ollama_client = get_ollama_client(ent.factory_calls + 1)]

\* self.ollama_client, a functools.cached_property: the first access calls
\* get_ollama_client and keeps the result, later accesses return what is kept
ollama_client(ent) ==
    IF ent.ollama_client # NoClient THEN ent
    ELSE [ent EXCEPT !.factory_calls = @ + 1,
                     !.ollama_client = get_ollama_client(ent.factory_calls + 1)]

\* Mutation of entity_tools: the catalog is kept on the class and holds the
\* methods of the first entity.
entity_tools_on_class(e, cls) ==
    IF cls \in TooledClasses
    THEN [schemas |-> tools_to_schema([key \in OwnToolKeys(cls) |-> BoundMethod(key)]),
          bound_to |-> "e1"]
    ELSE NoTools

\* Mutation of entity_tools: the members are looked up with dir(self), which
\* lists inherited ones too.
entity_tools_inherited(e, cls) ==
    IF cls \in TooledClasses
    THEN [schemas |-> tools_to_schema(
                          [key \in OwnToolKeys(cls) \cup InheritedToolKeys(cls)
                              |-> BoundMethod(key)]),
          bound_to |-> e]
    ELSE NoTools

\* TooledOllamaEntity.__init__: the catalog of the @tool methods found in the
\* __dict__ of the entity's class, bound to this instance; an OllamaEntity has
\* none
entity_tools(e, cls) ==
    IF cls \in TooledClasses
    THEN [schemas |-> tools_to_schema([key \in OwnToolKeys(cls) |-> BoundMethod(key)]),
          bound_to |-> e]
    ELSE NoTools

\* generate_response: the keyword arguments passed to generate besides
\* prompt, system and response_model
generate_response_kwargs(ent) ==
    IF ent.cls \in TooledClasses THEN {"context", "tools"} ELSE {"context"}

\* update() up to the await of generate_response: the client is read and
\* generate is called with the entity's context (and tools).  The call on the
\* mock is awaited; PydanticOllamaClient.generate runs as generate_call tells,
\* and what it raises leaves update.
update_entity(ent) ==
    LET self == ollama_client(ent)
        made == [NoUpdate EXCEPT !.context_before = ent._context,
                                 !.given_context = ent._context,
                                 !.given_tools = ent._tools,
                                 !.client = self.ollama_client]
    IN  IF self.ollama_client.kind = "AsyncMock"
        THEN [self EXCEPT !.updates = @ + 1,
                          !.pc = "await_generate",
                          !.last = [made EXCEPT !.outcome = "awaiting"]]
        ELSE LET gen == generate_call(
                            [IdleCall EXCEPT
                                !.prompt = <<"rendered_prompt">>,
                                !.system = <<"You are a friendly AI assistant.">>],
                            "BasicResponse", generate_response_kwargs(ent))
             IN  [self EXCEPT !.updates = @ + 1,
                              !.pc = IF gen.pc = "raised" THEN "idle"
                                     ELSE "await_generate",
                              !.last = [made EXCEPT
                                          !.outcome = IF gen.pc = "raised"
                                                      THEN gen.result.exc
                                                      ELSE "awaiting",
                                          !.generation = gen]]

\* how the awaited generation of an update ends: the pair (raw_response,
\* response) of the mock, an exception raised by the generation, or the
\* cancellation of the task that runs update
GenerationOutcomes == {"pair", "Exception", "CancelledError"}

\* Mutation of update_after_generate: a failed generation clears the context.
update_after_generate_clears_context(ent, outcome) ==
    IF outcome = "pair"
    THEN [ent EXCEPT !.pc = "idle",
                     !._context = MockContext,
                     !.last = [@ EXCEPT !.outcome = "ok",
                                        !.raw_context = MockContext,
                                        !.handled = TRUE,
                                        !.context_at_handle = MockContext,
                                        !.yielded = TRUE]]
    ELSE [ent EXCEPT !.pc = "idle",
                     !._context = "None",
                     !.last = [@ EXCEPT !.outcome = outcome]]

\* update() from the await on: the pair is unpacked, _context becomes
\* raw_response.context, handle_response is awaited and the events of
\* super().update() are yielded; an exception or a cancellation raised at the
\* await leaves update at once.
update_after_generate(ent, outcome) ==
    IF outcome = "pair"
    THEN LET stored == [ent EXCEPT !._context = MockContext]
         IN  [stored EXCEPT !.pc = "idle",
                            !.last = [@ EXCEPT !.outcome = "ok",
                                               !.raw_context = MockContext,
                                               !.handled = TRUE,
                                               !.context_at_handle = stored._context,
                                               !.yielded = TRUE]]
    ELSE [ent EXCEPT !.pc = "idle",
                     !.last = [@ EXCEPT !.outcome = outcome]]

(***************************************************************************)
(* The trading example: TradingActor                                       *)
(***************************************************************************)
\* InventoryEntry(item=Item(name=...), quantity=...)
InventoryEntry(name, quantity) == [name |-> name, quantity |-> quantity]

ItemNames == {"apple", "coin"}

\* the actor that handles the TradeEvent, and the actor that sent it
TradingActors == {"self", "other_actor"}

\* Inventories: lists of entries with positive quantities, one per item, as
\* add_item and remove_item keep them.
Inventories ==
    {inv \in UNION {[1..n -> {InventoryEntry(i, q) : i \in ItemNames, q \in 1..2}] :
                        n \in 0..MaxEntries} :
        \A i, j \in DOMAIN inv : inv[i].name = inv[j].name => i = j}

\* the inventories of the actor that sent the offer: at most one entry
SenderInventories == {inv \in Inventories : Len(inv) <= 1}

\* The entries of a TradeOffer, as model_validate accepts them: quantity is
\* any int, here 1, 2 or, for apples, -1
OfferEntries ==
    {InventoryEntry(i, q) : i \in ItemNames, q \in 1..2} \cup {InventoryEntry("apple", -1)}

\* requested_items of a TradeOffer: a list of entries, which may repeat
RequestedSides == UNION {[1..n -> OfferEntries] : n \in 0..MaxEntries}

\* offered_items of a TradeOffer: nothing, or one entry of a positive quantity
OfferedSides ==
    {<<>>} \cup {<<InventoryEntry(i, q)>> : i \in ItemNames, q \in 1..2}

\* TradeOffer(offered_items=..., requested_items=...)
TradeOffers ==
    {[offered_items |-> o, requested_items |-> r] :
        o \in OfferedSides, r \in RequestedSides}

\* the positions of the entries of an item in an inventory
EntriesOf(inv, name) == {i \in DOMAIN inv : inv[i].name = name}

\* list.remove(entry): the list without its element at position i
WithoutEntry(inv, i) ==
    [k \in 1..(Len(inv) - 1) |-> IF k < i THEN inv[k] ELSE inv[k + 1]]

\* add_item(item, quantity): the first entry of the item grows, or a new
\* entry is appended
add_item(inv, name, quantity) ==
    IF EntriesOf(inv, name) # {}
    THEN [inv EXCEPT ![MinOf(EntriesOf(inv, name))].quantity = @ + quantity]
    ELSE Append(inv, InventoryEntry(name, quantity))

\* remove_item(item_name, quantity): the first entry of the item that holds
\* at least the quantity shrinks, and leaves the list when it reaches 0;
\* without such an entry nothing changes and False is returned
remove_item(inv, name, quantity) ==
    LET enough == {i \in EntriesOf(inv, name) : inv[i].quantity >= quantity}
    IN  IF enough = {} THEN inv
        ELSE LET i == MinOf(enough)
             IN  IF inv[i].quantity - quantity = 0
                 THEN WithoutEntry(inv, i)
                 ELSE [inv EXCEPT ![i].quantity = @ - quantity]

\* can_complete_trade(offer): every requested entry, taken alone, is covered
\* by an entry of the actor's inventory
can_complete_trade(inv, offer) ==
    \A k \in DOMAIN offer.requested_items :
        \E i \in EntriesOf(inv, offer.requested_items[k].name) :
            inv[i].quantity >= offer.requested_items[k].quantity

\* the first loop of complete_trade from entry k on: self.remove_item, then
\* other_actor.add_item, whatever remove_item returned
RECURSIVE give_requested(_, _, _)
give_requested(invs, items, k) ==
    IF k > Len(items) THEN invs
    ELSE give_requested(
             [self        |-> remove_item(invs.self, items[k].name, items[k].quantity),
              other_actor |-> add_item(invs.other_actor, items[k].name, items[k].quantity)],
             items, k + 1)

\* the second loop of complete_trade from entry k on: self.add_item, then
\* other_actor.remove_item, whatever it returns
RECURSIVE receive_offered(_, _, _)
receive_offered(invs, items, k) ==
    IF k > Len(items) THEN invs
    ELSE receive_offered(
             [self        |-> add_item(invs.self, items[k].name, items[k].quantity),
              other_actor |-> remove_item(invs.other_actor, items[k].name, items[k].quantity)],
             items, k + 1)

\* complete_trade(offer, other_actor)
complete_trade(invs, offer) ==
    receive_offered(give_requested(invs, offer.requested_items, 1),
                    offer.offered_items, 1)

\* What decide_trade gets from the client it was constructed with: a client
\* that returns the pair (response, decision) the example unpacks, or
\* PydanticOllamaClient, which returns the TradeDecision alone.
TradeClients == {"pair", "PydanticOllamaClient"}

\* accept_trade of a TradeDecision
TradeDecisions == {"accept", "reject"}

\* one block `if isinstance(event, TradeEvent) and event.target_id ==
\* str(self.id)` of handle_event with a TradeDecision: decide_trade, and
\* complete_trade when the decision accepts and can_complete_trade holds
trade_block(t, decision) ==
    LET accepted == decision = "accept" /\ can_complete_trade(t.inventory.self, t.offer)
    IN  [t EXCEPT !.decisions = Append(@, decision),
                  !.executions = IF accepted THEN @ + 1 ELSE @,
                  !.inventory = IF accepted THEN complete_trade(@, t.offer) ELSE @]

\* handle_event(entity, event) for a TradeEvent addressed to self.  With
\* PydanticOllamaClient the unpacking in decide_trade binds no TradeDecision
\* and the first block raises at decision.accept_trade; with a pair-returning
\* client both blocks run, each with a decision of its own.
handle_trade_event(t, first, second) ==
    IF t.client = "PydanticOllamaClient"
    THEN [t EXCEPT !.pc = "raised", !.decisions = Append(@, "unusable")]
    ELSE [trade_block(trade_block(t, first), second) EXCEPT !.pc = "handled"]

NoTrade ==
    [pc |-> "none", client |-> "pair",
     inventory |-> [self |-> <<>>, other_actor |-> <<>>],
     before |-> [self |-> <<>>, other_actor |-> <<>>],
     offer |-> [offered_items |-> <<>>, requested_items |-> <<>>],
     decisions |-> <<>>, executions |-> 0]

(***************************************************************************)
(* Actions                                                                 *)
(***************************************************************************)
\* importing relative_world_ollama.client runs `from typing import ..., re`
import_client ==
    /\ client_module = "unloaded"
    /\ client_module' = IF typing_has_re THEN "loaded" ELSE "ImportError"
    /\ UNCHANGED <<typing_has_re, callers, call, patched, entity, trade>>

CanStart(c) ==
    /\ client_module = "loaded"
    /\ c \in callers
    /\ call[c].pc = "idle"

\* PydanticOllamaClient.generate up to the await of ollama_generate
generate(c) ==
    /\ CanStart(c)
    /\ \E response_model \in Schemas, args \in CallerArguments :
          call' = [call EXCEPT ![c] =
                     generate_call([@ EXCEPT !.prompt = args.texts.prompt,
                                             !.system = args.texts.system],
                                   response_model, args.kwargs)]
    /\ UNCHANGED <<typing_has_re, client_module, callers, patched, entity, trade>>

\* the transport answers the primary request with one of `texts`
primary_response(c, texts) ==
    /\ call[c].pc = "await_primary"
    /\ \E text \in texts :
          call' = [call EXCEPT ![c] = generate_after_primary(@, text)]
    /\ UNCHANGED <<typing_has_re, client_module, callers, patched, entity, trade>>

\* a direct call of fix_json_response(client, bad_json, response_model)
fix_json_response(c) ==
    /\ CanStart(c)
    /\ \E bad_json \in BadJsonInputs, response_model \in Schemas :
          call' = [call EXCEPT ![c] =
                     fix_json_response_request(
                         [@ EXCEPT !.op = "fix_json_response",
                                   !.response_model = response_model],
                         bad_json)]
    /\ UNCHANGED <<typing_has_re, client_module, callers, patched, entity, trade>>

\* the transport answers the repair request with one of `texts`
repair_response(c, texts) ==
    /\ call[c].pc = "await_repair"
    /\ \E text \in texts :
          call' = [call EXCEPT ![c] = after_repair(@, text)]
    /\ UNCHANGED <<typing_has_re, client_module, callers, patched, entity, trade>>

\* the awaited transport call fails
transport_error(c) ==
    /\ call[c].pc \in Awaiting
    /\ call' = [call EXCEPT ![c] = transport_failure(@)]
    /\ UNCHANGED <<typing_has_re, client_module, callers, patched, entity, trade>>

\* a direct call of maybe_parse_json(content), content one of `texts`
call_maybe_parse_json(c, texts) ==
    /\ CanStart(c)
    /\ \E content \in texts :
          call' = [call EXCEPT ![c] =
                     LET ex == maybe_parse_json(content)
                     IN  Finish([@ EXCEPT !.op = "maybe_parse_json",
                                          !.response_text = content,
                                          !.extract = ex], ex)]
    /\ UNCHANGED <<typing_has_re, client_module, callers, patched, entity, trade>>

\* a direct call of call_tool(tools, tool_call); tools.py imports nothing from
\* the client module
call_tool_direct(c) ==
    /\ c \in callers
    /\ call[c].pc = "idle"
    /\ \E tool_call \in ToolCallRequests :
          call' = [call EXCEPT ![c] =
                     LET done == call_tool(CatalogNames, tool_call)
                     IN  Finish([@ EXCEPT !.op = "call_tool",
                                          !.tool_call = tool_call,
                                          !.tool_response = done.response,
                                          !.invocations = done.invocations],
                                done.outcome)]
    /\ UNCHANGED <<typing_has_re, client_module, callers, patched, entity, trade>>

\* a direct call of inline_json_schema_defs(schema); schema_after is the
\* caller's mapping after the call, from which schema.pop has taken $defs
call_inline_json_schema_defs(c) ==
    /\ CanStart(c)
    /\ \E schema \in SchemaInputs :
          call' = [call EXCEPT ![c] =
                     LET out == inline_json_schema_defs(schema)
                     IN  Finish([@ EXCEPT !.op = "inline_json_schema_defs",
                                          !.schema = schema,
                                          !.schema_after = schema_pop_defs(schema).rest,
                                          !.inlined = out],
                                IF IsError(out) THEN Raise(out.error, <<>>, FALSE)
                                ELSE Return(None, FALSE))]
    /\ UNCHANGED <<typing_has_re, client_module, callers, patched, entity, trade>>

\* a direct call of function_to_schema(function); tools.py imports nothing
\* from the client module
call_function_to_schema(c) ==
    /\ c \in callers
    /\ call[c].pc = "idle"
    /\ \E function \in Callables :
          call' = [call EXCEPT ![c] =
                     LET out == function_to_schema(function)
                     IN  Finish([@ EXCEPT !.op = "function_to_schema",
                                          !.function = function,
                                          !.function_schema = out],
                                IF IsError(out) THEN Raise(out.error, <<>>, FALSE)
                                ELSE Return(None, FALSE))]
    /\ UNCHANGED <<typing_has_re, client_module, callers, patched, entity, trade>>

\* a direct call of tools_to_schema(tools)
call_tools_to_schema(c) ==
    /\ c \in callers
    /\ call[c].pc = "idle"
    /\ \E tools \in ToolMappings :
          call' = [call EXCEPT ![c] =
                     LET out == tools_to_schema(tools)
                     IN  Finish([@ EXCEPT !.op = "tools_to_schema",
                                          !.tools = tools,
                                          !.catalog = out],
                                IF IsError(out) THEN Raise(out.error, <<>>, FALSE)
                                ELSE Return(None, FALSE))]
    /\ UNCHANGED <<typing_has_re, client_module, callers, patched, entity, trade>>

\* OllamaEntity(...) or TooledOllamaEntity(...); entity.py imports the client
\* module
construct(e) ==
    /\ client_module = "loaded"
    /\ entity[e].cls = "none"
    /\ \E cls \in EntityClasses :
          entity' = [entity EXCEPT ![e] =
                       [NoEntity EXCEPT !.cls = cls, !._tools = entity_tools(e, cls)]]
    /\ UNCHANGED <<typing_has_re, client_module, callers, call, patched, trade>>

\* an access to entity.ollama_client outside update
read_ollama_client(e) ==
    /\ entity[e].cls # "none"
    /\ entity' = [entity EXCEPT ![e] = ollama_client(@)]
    /\ UNCHANGED <<typing_has_re, client_module, callers, call, patched, trade>>

\* one call of entity.update(), run to the await of its generation or to the
\* exception that ends it
update(e) ==
    /\ entity[e].cls # "none"
    /\ entity[e].pc = "idle"
    /\ entity[e].updates < MaxUpdates
    /\ entity' = [entity EXCEPT ![e] = update_entity(@)]
    /\ UNCHANGED <<typing_has_re, client_module, callers, call, patched, trade>>

\* the awaited generation of an update ends, and update runs on to its end
generation_done(e) ==
    /\ entity[e].pc = "await_generate"
    /\ \E outcome \in GenerationOutcomes :
          entity' = [entity EXCEPT ![e] = update_after_generate(@, outcome)]
    /\ UNCHANGED <<typing_has_re, client_module, callers, call, patched, trade>>

\* a call of self.complete_trade(offer, other_actor)
call_complete_trade ==
    /\ trade.pc = "pending"
    /\ trade' = [trade EXCEPT !.pc = "completed",
                              !.executions = @ + 1,
                              !.inventory = complete_trade(@, trade.offer)]
    /\ UNCHANGED <<typing_has_re, client_module, callers, call, patched, entity>>

\* self.handle_event(other_actor, TradeEvent(target_id=str(self.id), offer=offer))
handle_event ==
    /\ trade.pc = "pending"
    /\ \E first \in TradeDecisions, second \in TradeDecisions :
          trade' = handle_trade_event(trade, first, second)
    /\ UNCHANGED <<typing_has_re, client_module, callers, call, patched, entity>>

(***************************************************************************)
(* Specification                                                           *)
(***************************************************************************)
Init ==
    /\ typing_has_re \in BOOLEAN
    /\ client_module = "unloaded"
    /\ callers = {"c1"}
    /\ call = [c \in CallIds |-> IdleCall]
    /\ patched = FALSE
    /\ entity = [e \in EntityIds |-> NoEntity]
    /\ trade = NoTrade

TransportStep(texts) ==
    \E c \in CallIds :
        \/ primary_response(c, texts)
        \/ repair_response(c, texts)
        \/ transport_error(c)

Step(texts) ==
    \/ import_client
    \/ \E c \in CallIds : generate(c)
    \/ \E c \in CallIds : fix_json_response(c)
    \/ \E c \in CallIds : call_maybe_parse_json(c, texts)
    \/ \E c \in CallIds : call_tool_direct(c)
    \/ TransportStep(texts)

\* direct calls of the functions that build schemas
SchemaStep ==
    \/ \E c \in CallIds : call_inline_json_schema_defs(c)
    \/ \E c \in CallIds : call_function_to_schema(c)
    \/ \E c \in CallIds : call_tools_to_schema(c)

Next == Step(Texts) \/ SchemaStep

Spec == Init /\ [][Next]_vars

\* The same program with the transport answering from ShortTexts, and every
\* transport call returning or failing (the awaited call does not hang).
FairNext == Step(ShortTexts)

FairSpec == Init /\ [][FairNext]_vars /\ WF_vars(TransportStep(ShortTexts))

\* Two callers share one PydanticOllamaClient and their calls interleave at
\* the awaits; the transport answers from ConcTexts.
ConcTexts == SeqsUpTo(MaxConcLen)

ConcInit ==
    /\ typing_has_re \in BOOLEAN
    /\ client_module = "unloaded"
    /\ callers = CallIds
    /\ call = [c \in CallIds |-> IdleCall]
    /\ patched = FALSE
    /\ entity = [e \in EntityIds |-> NoEntity]
    /\ trade = NoTrade

ConcNext == Step(ConcTexts)

ConcSpec == ConcInit /\ [][ConcNext]_vars

\* Entities, constructed and updated; get_ollama_client is the function of
\* client.py or, as in tests/test_entity.py, patched with a mock.
EntityInit ==
    /\ typing_has_re \in BOOLEAN
    /\ client_module = "unloaded"
    /\ callers = {}
    /\ call = [c \in CallIds |-> IdleCall]
    /\ patched \in BOOLEAN
    /\ entity = [e \in EntityIds |-> NoEntity]
    /\ trade = NoTrade

EntityNext ==
    \/ import_client
    \/ \E e \in EntityIds : construct(e)
    \/ \E e \in EntityIds : read_ollama_client(e)
    \/ \E e \in EntityIds : update(e)
    \/ \E e \in EntityIds : generation_done(e)

EntitySpec == EntityInit /\ [][EntityNext]_vars

\* The trading example: two actors with their inventories, and a TradeEvent
\* from other_actor to self that is about to be handled.
TradeInit ==
    /\ typing_has_re = TRUE
    /\ client_module = "unloaded"
    /\ callers = {}
    /\ call = [c \in CallIds |-> IdleCall]
    /\ patched = FALSE
    /\ entity = [e \in EntityIds |-> NoEntity]
    /\ \E mine \in Inventories, theirs \in SenderInventories, offer \in TradeOffers,
          client \in TradeClients :
          trade = [NoTrade EXCEPT !.pc = "pending",
                                  !.client = client,
                                  !.inventory = [self |-> mine, other_actor |-> theirs],
                                  !.before = [self |-> mine, other_actor |-> theirs],
                                  !.offer = offer]

TradeNext ==
    \/ call_complete_trade
    \/ handle_event

TradeSpec == TradeInit /\ [][TradeNext]_vars

(***************************************************************************)
(* Vocabulary of the properties                                            *)
(***************************************************************************)
\* the entire text is one JSON document
IsJsonDocument(t) == Len(t) = 1 /\ t[1] \in JsonTokens

\* what a JSON document denotes
Denotes(t) == token_value(t[1])

\* data has the shape the response model declares
ConformsTo(cls, data) == data.py = "dict" /\ data.key = SchemaField(cls)

\* a json-tagged fenced block starts at i: opening fence, one JSON document,
\* closing fence
JsonBlockAt(t, i) ==
    /\ i + 2 <= Len(t)
    /\ t[i] = "FO"
    /\ t[i + 1] \in JsonTokens
    /\ t[i + 2] = "FC"

HasJsonBlock(t) == \E i \in 1..Len(t) : JsonBlockAt(t, i)

\* some opening fence is followed, anywhere later, by a closing fence
HasFence(t) ==
    \E i \in 1..Len(t) : \E j \in 1..Len(t) :
        i < j /\ t[i] = "FO" /\ t[j] = "FC"

\* neither valid JSON as a whole nor holding a fenced block that parses
Unparsable(t) == ~IsJsonDocument(t) /\ ~HasJsonBlock(t)

\* the call has received its primary response and run the extractor on it
Extracted(r) == r.extract.kind # "none"

\* the call has received its repair response
Repaired(r) ==
    r.n_repair = 1 /\ r.pc \in Terminal /\ r.result.exc # "TransportError"

(***************************************************************************)
(* Properties                                                              *)
(***************************************************************************)

\* C1: when the primary response is, as a whole, valid JSON conforming to the
\* response model, generate returns an instance of that model whose fields
\* equal the parsed values, after exactly one transport call and no repair call.
C1_DirectJsonReturnsInstance ==
    \A c \in CallIds :
        LET r == call[c]
        IN  (/\ r.op = "generate"
             /\ Extracted(r)
             /\ IsJsonDocument(r.response_text)
             /\ ConformsTo(r.response_model, Denotes(r.response_text)))
            => /\ r.pc = "returned"
               /\ r.result.kind = "return"
               /\ r.result.value = Instance(r.response_model, Denotes(r.response_text))
               /\ r.n_primary = 1
               /\ r.n_repair = 0

\* C1 witness: BasicResponse and '{"text":"hello"}' give text == "hello".
C1_Witness ==
    \E c \in CallIds :
        /\ call[c].op = "generate"
        /\ call[c].pc = "returned"
        /\ call[c].response_model = "BasicResponse"
        /\ call[c].response_text = <<"Jhello">>
        /\ call[c].result.value.key = "text"
        /\ call[c].result.value.val = "hello"

\* C2: a generate call that returns, returns a two-element tuple
\* (raw_response, validated_instance).
C2_ReturnsPair ==
    \A c \in CallIds :
        (call[c].op = "generate" /\ call[c].pc = "returned")
            => call[c].result.value.py = "tuple"

\* C3: when the primary text is neither valid JSON as a whole nor holds a
\* json-tagged fence, generate issues exactly one repair call, and a repair
\* output that is valid conforming JSON becomes the returned instance.
C3_ProseTriggersOneRepair ==
    \A c \in CallIds :
        LET r == call[c]
        IN  (/\ r.op = "generate"
             /\ Extracted(r)
             /\ ~IsJsonDocument(r.response_text)
             /\ ~HasFence(r.response_text))
            => /\ r.n_repair = 1
               /\ (/\ Repaired(r)
                   /\ IsJsonDocument(r.repair_text)
                   /\ ConformsTo(r.response_model, Denotes(r.repair_text)))
                  => /\ r.pc = "returned"
                     /\ r.result.value =
                            Instance(r.response_model, Denotes(r.repair_text))

\* C4: for a text that is not valid JSON as a whole and holds no fenced block
\* that parses, maybe_parse_json raises the extraction failure (the
\* orjson.JSONDecodeError its callers catch); it returns no value.
C4_ExtractorRaisesOnUnparsable ==
    \A c \in CallIds :
        LET r == call[c]
        IN  (/\ r.op = "maybe_parse_json"
             /\ r.pc \in Terminal
             /\ Unparsable(r.response_text))
            => /\ r.result.kind = "raise"
               /\ r.result.exc = "JSONDecodeError"

\* C5: a generate call issues at most one repair call; when every transport
\* response is unparsable it makes one primary call and one repair call and
\* then raises UnparsableResponseError.
C5_RepairSingleShot ==
    \A c \in CallIds :
        LET r == call[c]
        IN  r.op = "generate"
            => /\ r.n_repair <= 1
               /\ (/\ r.pc \in Terminal
                   /\ r.result.exc # "TransportError"
                   /\ Unparsable(r.response_text)
                   /\ (r.n_repair = 1 => Unparsable(r.repair_text)))
                  => /\ r.n_primary = 1
                     /\ r.n_repair = 1
                     /\ r.result.kind = "raise"
                     /\ r.result.exc = "UnparsableResponseError"

\* C6: when the repair output fails extraction too, fix_json_response raises
\* UnparsableResponseError carrying the bad_json it was given.
C6_RepairFailureCarriesBadJson ==
    \A c \in CallIds :
        LET r == call[c]
        IN  (/\ r.op = "fix_json_response"
             /\ Repaired(r)
             /\ Unparsable(r.repair_text))
            => /\ r.result.kind = "raise"
               /\ r.result.exc = "UnparsableResponseError"
               /\ r.result.text = r.bad_json

\* C7: whatever generate returns is an instance of the caller's response model
\* built from data that has the model's shape.
C7_ReturnedValueValidates ==
    \A c \in CallIds :
        LET r == call[c]
        IN  (r.op = "generate" /\ r.pc = "returned")
            => /\ r.result.kind = "return"
               /\ r.result.value.py = "instance"
               /\ r.result.value.cls = r.response_model
               /\ r.result.value.key = SchemaField(r.response_model)

\* C7 witness: a generate call has returned for TestGenerateResponse.
C7_Witness ==
    \E c \in CallIds :
        /\ call[c].op = "generate"
        /\ call[c].pc = "returned"
        /\ call[c].response_model = "TestGenerateResponse"
        /\ call[c].result.value.val = "value"

\* C8: a generate call never makes more than two transport calls, and, every
\* transport call returning or failing, a call that waits for the transport
\* eventually returns or raises.
C8_GenerateTerminatesBounded ==
    /\ [](\A c \in CallIds : call[c].n_primary + call[c].n_repair <= 2)
    /\ \A c \in CallIds :
           (call[c].op = "generate" /\ call[c].pc \in Awaiting)
               ~> (call[c].pc \in Terminal)

\* C8 witness: a generate call has ended by raising after its transport call.
C8_Witness ==
    \E c \in CallIds :
        /\ call[c].op = "generate"
        /\ call[c].pc = "raised"
        /\ call[c].n_primary = 1
        /\ Extracted(call[c])

\* C9: when the entire text is valid JSON the extractor returns the parse of
\* the entire text and does not attempt the fence search.
C9_DirectParseFirst ==
    \A c \in CallIds :
        LET r == call[c]
        IN  (Extracted(r) /\ IsJsonDocument(r.response_text))
            => /\ r.extract.kind = "return"
               /\ r.extract.value = Denotes(r.response_text)
               /\ ~r.extract.searched

\* C9 witness: the text is a JSON string that holds a fenced block, and the
\* extractor has returned the string.
C9_Witness ==
    \E c \in CallIds :
        /\ call[c].op = "maybe_parse_json"
        /\ call[c].pc = "returned"
        /\ call[c].response_text = <<"Jfence">>
        /\ call[c].result.value.py = "str"

\* C10: when the text is not valid JSON as a whole but holds a json-tagged
\* fenced block whose content is valid JSON, the extractor returns the parse of
\* that block's content and generate makes no repair call.
C10_FencedBlockRecovered ==
    \A c \in CallIds :
        LET r == call[c]
        IN  (/\ Extracted(r)
             /\ ~IsJsonDocument(r.response_text)
             /\ HasJsonBlock(r.response_text))
            => /\ r.extract.kind = "return"
               /\ \E i \in 1..Len(r.response_text) :
                      /\ JsonBlockAt(r.response_text, i)
                      /\ r.extract.value = token_value(r.response_text[i + 1])
               /\ r.n_repair = 0

\* the request names a tool of the catalog
NamesCatalogTool(r) == r.tool_call.function_name \in CatalogNames

\* how the callable named by the request ends when invoked with its arguments
CallableOutcome(r) == invoke(r.tool_call.function_name, r.tool_call.function_args)

\* call_tool has returned a ToolCallResponse for the request, holding a failure trace
ReturnedFailureTrace(r) ==
    /\ r.pc = "returned"
    /\ r.tool_response.tool_call = r.tool_call
    /\ r.tool_response.result.cls = "traceback"
    /\ r.tool_response.result.val # ""

\* C11 (as claimed): whenever the callable of a catalog tool raises, call_tool
\* returns a ToolCallResponse for the request whose result is a non-empty
\* failure trace.
C11_AnyToolFailureCaptured ==
    \A c \in CallIds :
        LET r == call[c]
        IN  (/\ r.op = "call_tool"
             /\ r.pc \in Terminal
             /\ NamesCatalogTool(r)
             /\ CallableOutcome(r).kind = "raise")
            => ReturnedFailureTrace(r)

\* C11 (amended): whenever the callable of a catalog tool raises an exception
\* that derives from Exception, call_tool returns a ToolCallResponse for the
\* request whose result is a non-empty failure trace.
C11_ExceptionFailureCaptured ==
    \A c \in CallIds :
        LET r == call[c]
        IN  (/\ r.op = "call_tool"
             /\ r.pc \in Terminal
             /\ NamesCatalogTool(r)
             /\ CallableOutcome(r).kind = "raise"
             /\ CallableOutcome(r).exc \in ExceptionClasses)
            => ReturnedFailureTrace(r)

\* C11 witness: boom(city="Paris") raised ValueError and call_tool returned its trace.
C11_Witness ==
    \E c \in CallIds :
        /\ call[c].op = "call_tool"
        /\ call[c].pc = "returned"
        /\ call[c].tool_call = ToolCallRequest("boom", "city=Paris")
        /\ call[c].invocations = <<call[c].tool_call>>
        /\ call[c].tool_response.result = format_exc("ValueError")

\* C12: for a request that names no tool of the catalog, call_tool invokes no
\* callable and returns a ToolCallResponse for the request that carries a
\* failure description.
C12_UnknownToolCaptured ==
    \A c \in CallIds :
        LET r == call[c]
        IN  (/\ r.op = "call_tool"
             /\ r.pc \in Terminal
             /\ ~NamesCatalogTool(r))
            => /\ r.invocations = <<>>
               /\ ReturnedFailureTrace(r)

\* C12 witness: unknown_tool was requested and call_tool returned.
C12_Witness ==
    \E c \in CallIds :
        /\ call[c].op = "call_tool"
        /\ call[c].pc = "returned"
        /\ call[c].tool_call.function_name = "unknown_tool"
        /\ call[c].tool_response.result = format_exc("KeyError")

\* C13: for a request that names a catalog tool whose callable returns
\* normally, call_tool invokes that callable exactly once with the request's
\* arguments and returns a ToolCallResponse holding the request and the
\* callable's return value.
C13_ToolResultReturned ==
    \A c \in CallIds :
        LET r == call[c]
        IN  (/\ r.op = "call_tool"
             /\ r.pc \in Terminal
             /\ NamesCatalogTool(r)
             /\ CallableOutcome(r).kind = "return")
            => /\ r.pc = "returned"
               /\ r.invocations = <<r.tool_call>>
               /\ r.tool_response.tool_call = r.tool_call
               /\ r.tool_response.result = CallableOutcome(r).value

\* C13 witness: check_weather(city="Paris") was called and its value returned.
C13_Witness ==
    \E c \in CallIds :
        /\ call[c].op = "call_tool"
        /\ call[c].pc = "returned"
        /\ call[c].tool_call = ToolCallRequest("check_weather", "city=Paris")
        /\ call[c].tool_response.result = PyStr("sunny in Paris")

\* a generate call made with a tool catalog
ToolsConfigured(r) == r.op = "generate" /\ "tools" \in r.kwargs

\* the data is a tool-call container
IsToolCallContainer(data) == data.py = "dict" /\ data.key = "tool_calls"

\* p is a prefix of s
IsPrefix(p, s) == Len(p) <= Len(s) /\ SubSeq(s, 1, Len(p)) = p

\* C14: a generate call with tools configured runs the orchestration: once it
\* has ended it has called the transport, and it has returned only a
\* schema-conforming answer that is no tool-call container, with one history
\* entry per dispatched tool call.
C14_ToolCallsDispatchedThenAnswered ==
    \A c \in CallIds :
        LET r == call[c]
        IN  (ToolsConfigured(r) /\ r.pc \in Terminal)
            => /\ r.n_primary >= 1
               /\ ~(r.pc = "raised" /\ r.result.exc = "TypeError")
               /\ r.pc = "returned"
                    => /\ r.result.value.py = "instance"
                       /\ ~IsToolCallContainer(r.extract.value)
                       /\ Len(r.history) = Len(r.invocations)

C16_HistoryOnlyGrows ==
    /\ [](\A c \in CallIds :
            call[c].op = "generate" => IsPrefix(call[c].given_history, call[c].history))
    /\ [][\A c \in CallIds :
            call[c].op = "generate" => IsPrefix(call[c].history, call'[c].history)]_vars

\* the calls that use the transport
UsesTransport(r) == r.op \in {"generate", "fix_json_response"}

\* C17: when a transport call of generate or of the repair step fails, the
\* call ends by raising that transport error, not UnparsableResponseError,
\* with no request left outstanding; and a call that has ended sends no
\* further request and keeps its outcome.
C17_TransportFailurePropagates ==
    /\ [](\A c \in CallIds :
            LET r == call[c]
            IN  (UsesTransport(r) /\ r.transport_failed)
                => /\ r.pc = "raised"
                   /\ r.result = Raise("TransportError", <<>>, FALSE)
                   /\ r.outstanding = 0
                   /\ Len(r.requests) = r.n_primary + r.n_repair)
    /\ [][\A c \in CallIds :
            (UsesTransport(call[c]) /\ call[c].pc \in Terminal)
                => call'[c] = call[c]]_vars

\* C17 witness: the primary transport call of a generate call failed and the
\* call raised the transport error after that single request.
C17_Witness ==
    \E c \in CallIds :
        /\ call[c].op = "generate"
        /\ call[c].transport_failed
        /\ call[c].result.exc = "TransportError"
        /\ call[c].requests = <<PrimaryRequest(call[c])>>

\* C18: when extraction of a generate call's primary response succeeds but
\* the data does not conform to response_model, the call raises the
\* validation failure and has issued no repair call; when the repair output
\* parses but does not conform, the call raises the validation failure after
\* that one repair call.
C18_ValidationFailureNotRepaired ==
    \A c \in CallIds :
        LET r == call[c]
        IN  /\ (/\ r.op = "generate"
                /\ Extracted(r)
                /\ r.extract.kind = "return"
                /\ ~ConformsTo(r.response_model, r.extract.value))
               => /\ r.pc = "raised"
                  /\ r.result.exc = "ValidationError"
                  /\ r.n_primary = 1
                  /\ r.n_repair = 0
            /\ (/\ r.op = "generate"
                /\ Repaired(r)
                /\ maybe_parse_json(r.repair_text).kind = "return"
                /\ ~ConformsTo(r.response_model, maybe_parse_json(r.repair_text).value))
               => /\ r.pc = "raised"
                  /\ r.result.exc = "ValidationError"
                  /\ r.n_repair = 1

\* C18 witness: a generate call for BasicResponse got {"response": "value"},
\* which parses but does not conform, and raised the validation failure.
C18_Witness ==
    \E c \in CallIds :
        /\ call[c].op = "generate"
        /\ call[c].response_model = "BasicResponse"
        /\ call[c].response_text = <<"Jresp">>
        /\ call[c].result.exc = "ValidationError"
        /\ call[c].n_repair = 0

\* C20: a generate call has at most one transport request outstanding at any
\* time, and it has issued a repair request only after its primary response
\* was received and the extraction of that response failed.
C20_RoundTripsSequential ==
    \A c \in CallIds :
        LET r == call[c]
        IN  r.op = "generate"
            => /\ r.outstanding <= 1
               /\ Len(r.requests) = r.n_primary + r.n_repair
               /\ r.n_repair >= 1
                    => /\ Extracted(r)
                       /\ r.extract.kind = "raise"
                       /\ r.extract.exc = "JSONDecodeError"
                       /\ r.requests = <<PrimaryRequest(r), RepairRequest(r, r.response_text)>>

\* C20 witness: a generate call waits for its primary response, that request
\* being the only one sent.
C20_Witness ==
    \E c \in CallIds :
        /\ call[c].op = "generate"
        /\ call[c].pc = "await_primary"
        /\ call[c].outstanding = 1
        /\ call[c].requests = <<PrimaryRequest(call[c])>>

\* The generate call r run alone on a client nobody else uses, with r's
\* arguments and the transport answering (or failing) as it did for r, up to
\* the point r has reached.
RunAlone(r) ==
    LET s0 == generate_call([IdleCall EXCEPT !.prompt = r.prompt,
                                             !.system = r.system],
                            r.response_model, r.kwargs)
        s1 == IF s0.pc \in Terminal \/ r.pc = "await_primary" THEN s0
              ELSE IF r.transport_failed /\ ~Extracted(r) THEN transport_failure(s0)
              ELSE generate_after_primary(s0, r.response_text)
        s2 == IF s1.pc # "await_repair" \/ r.pc = "await_repair" THEN s1
              ELSE IF r.transport_failed THEN transport_failure(s1)
              ELSE after_repair(s1, r.repair_text)
    IN  s2

C21_AsyncToolAwaited ==
    \A c \in CallIds :
        LET r == call[c]
            eventual == awaited(r.tool_call.function_name)
        IN  (/\ r.op = "call_tool"
             /\ r.pc \in Terminal
             /\ r.tool_call.function_name \in AsyncTools
             /\ r.tool_call.function_args = "city=Paris")
            => /\ r.pc = "returned"
               /\ r.tool_response.result.py # "coroutine"
               /\ r.tool_response.result =
                      IF eventual.kind = "return" THEN eventual.value
                      ELSE format_exc(eventual.exc)

RECURSIVE HasRef(_)
\* a "$ref" key occurs in obj at some depth
HasRef(obj) ==
    IF IsDict(obj)
    THEN \/ "$ref" \in DOMAIN obj.dict
         \/ \E k \in DOMAIN obj.dict : HasRef(obj.dict[k])
    ELSE IF IsList(obj)
    THEN \E i \in DOMAIN obj.list : HasRef(obj.list[i])
    ELSE FALSE

RECURSIVE RefsIn(_)
\* the names the refs inside obj point to
RefsIn(obj) ==
    IF IsDict(obj)
    THEN IF "$ref" \in DOMAIN obj.dict THEN {ref_key(obj)}
         ELSE UNION {RefsIn(obj.dict[k]) : k \in DOMAIN obj.dict}
    ELSE IF IsList(obj)
    THEN UNION {RefsIn(obj.list[i]) : i \in DOMAIN obj.list}
    ELSE {}

RECURSIVE RefClosure(_, _, _)
\* the names reached from `names` through the definitions, in n rounds
RefClosure(names, defs, n) ==
    IF n = 0 THEN names
    ELSE RefClosure(names \cup UNION {RefsIn(defs_get(defs, m)) : m \in names},
                    defs, n - 1)

\* the names the schema refers to, directly or through definitions
ReachedNames(schema) ==
    LET popped == schema_pop_defs(schema)
    IN  RefClosure(RefsIn(popped.rest), popped.defs, Cardinality(RefNames))

\* some definition the schema reaches refers back to itself, directly or
\* through other definitions
RefersBackToItself(schema) ==
    LET defs == schema_pop_defs(schema).defs
    IN  \E n \in ReachedNames(schema) :
            n \in RefClosure(RefsIn(defs_get(defs, n)), defs, Cardinality(RefNames))

\* the schema reaches a ref whose name $defs does not hold
HasDanglingRef(schema) ==
    \E n \in ReachedNames(schema) : n \notin DOMAIN schema_pop_defs(schema).defs.dict

\* the call returned a schema without any $ref and without top-level $defs
ReturnedInlined(r) ==
    /\ r.pc = "returned"
    /\ ~HasRef(r.inlined)
    /\ "$defs" \notin DOMAIN r.inlined.dict

C23_InlineIdempotent ==
    \A c \in CallIds :
        LET r == call[c]
        IN  (r.op = "inline_json_schema_defs" /\ r.pc = "returned")
            => inline_json_schema_defs(r.inlined) = r.inlined

\* C23 witness: a schema whose definition A refers to definition B was
\* inlined, the result differing from the schema.
C23_Witness ==
    \E c \in CallIds :
        /\ call[c].op = "inline_json_schema_defs"
        /\ call[c].pc = "returned"
        /\ {"$defs", "properties"} \subseteq DOMAIN call[c].schema.dict
        /\ call[c].schema.dict["properties"].dict["x"] = Ref("A")
        /\ call[c].schema.dict["$defs"].dict["A"] = ObjectOf(Ref("B"))
        /\ call[c].inlined # call[c].schema
        /\ call[c].inlined.dict["properties"].dict["x"] = ObjectOf(StringType)

\* the property x of the schema, before and after inlining
PropertyX(schema) == schema.dict["properties"].dict["x"]

\* C24: no call of inline_json_schema_defs raises KeyError; when the schema
\* has a dangling ref (and no definition referring back to itself) the call
\* returns, a dangling ref stands replaced by the empty object, and no other
\* ref is left in the result.
C24_DanglingRefBecomesEmpty ==
    \A c \in CallIds :
        LET r == call[c]
        IN  (r.op = "inline_json_schema_defs" /\ r.pc \in Terminal)
            => /\ r.result.exc # "KeyError"
               /\ (HasDanglingRef(r.schema) /\ ~RefersBackToItself(r.schema))
                    => /\ ReturnedInlined(r)
                       /\ ("properties" \in DOMAIN r.schema.dict
                            /\ PropertyX(r.schema) = Ref("Missing"))
                            => PropertyX(r.inlined) = EmptyDict
                       /\ ("properties" \in DOMAIN r.schema.dict
                            /\ PropertyX(r.schema) = Ref("A")
                            /\ defs_get(schema_pop_defs(r.schema).defs, "A") = ObjectOf(Ref("Missing")))
                            => PropertyX(r.inlined) = ObjectOf(EmptyDict)

\* C24 witness: property x refers to definition A, which holds a dangling
\* ref; A was substituted and the dangling ref became the empty object.
C24_Witness ==
    \E c \in CallIds :
        /\ call[c].op = "inline_json_schema_defs"
        /\ call[c].pc = "returned"
        /\ {"$defs", "properties"} \subseteq DOMAIN call[c].schema.dict
        /\ PropertyX(call[c].schema) = Ref("A")
        /\ call[c].schema.dict["$defs"].dict["A"] = ObjectOf(Ref("Missing"))
        /\ PropertyX(call[c].inlined) = ObjectOf(EmptyDict)

\* the parameters of the callable function_to_schema was called with
ParamsOf(r) == {r.function.params[i] : i \in DOMAIN r.function.params}

\* the position of the parameter called name in the signature
PositionOf(r, name) ==
    CHOOSE i \in DOMAIN r.function.params : r.function.params[i].name = name

\* C25: in a schema function_to_schema returns, `required` holds exactly the
\* parameters without default that are not named self or actor, each once and
\* in signature order, and the keys of `parameters` are exactly the parameters
\* not named self or actor.
C25_RequiredAndParametersExcludeImplicit ==
    \A c \in CallIds :
        LET r == call[c]
            fs == r.function_schema
            required == {fs.required[i] : i \in DOMAIN fs.required}
        IN  (r.op = "function_to_schema" /\ r.pc = "returned")
            => /\ required = {q.name : q \in {q \in ParamsOf(r) :
                                    ~q.has_default /\ q.name \notin {"self", "actor"}}}
               /\ \A i, j \in DOMAIN fs.required :
                     i < j => PositionOf(r, fs.required[i]) < PositionOf(r, fs.required[j])
               /\ DOMAIN fs.parameters = {q.name : q \in ParamsOf(r)} \ {"self", "actor"}
               /\ required \subseteq DOMAIN fs.parameters
               /\ {"self", "actor"} \cap (required \cup DOMAIN fs.parameters) = {}

\* C25 witness: a schema was built for f(actor, city: str) and lists city only.
C25_Witness ==
    \E c \in CallIds :
        /\ call[c].op = "function_to_schema"
        /\ call[c].pc = "returned"
        /\ call[c].function.params =
              <<Parameter("actor", FALSE, "empty"), Parameter("city", FALSE, "str")>>
        /\ call[c].function_schema.required = <<"city">>
        /\ DOMAIN call[c].function_schema.parameters = {"city"}

\* the wire-level tags of the annotations py_type_to_param_type recognises
KnownTags == [str |-> "string", int |-> "integer"]

\* C26: tools_to_schema returns, for every mapping of names to callables, a
\* catalog with one descriptor per name, whose description is the docstring
\* or the empty string and whose parameters carry the tag of a recognised
\* type and the tag string for every other or missing annotation.
C26_CatalogBuildNeverFails ==
    \A c \in CallIds :
        LET r == call[c]
        IN  (r.op = "tools_to_schema" /\ r.pc \in Terminal)
            => /\ r.pc = "returned"
               /\ DOMAIN r.catalog = DOMAIN r.tools
               /\ \A name \in DOMAIN r.tools :
                     LET f == r.tools[name]
                         d == r.catalog[name]
                     IN  /\ d.description = IF f.has_doc THEN "function.__doc__" ELSE ""
                         /\ \A i \in DOMAIN f.params :
                               f.params[i].name \notin {"self", "actor"}
                               => d.parameters[f.params[i].name].type =
                                     IF f.params[i].annotation \in DOMAIN KnownTags
                                     THEN KnownTags[f.params[i].annotation]
                                     ELSE "string"

\* the entity has been constructed
Constructed(e) == entity[e].cls # "none"

\* C27: the generation call of every update is given the context the entity
\* held before that update (None before the first successful one), the
\* PydanticOllamaClient passes that context on to the transport, and after a
\* successful update the entity holds the context of that update's raw
\* response.
C27_ContextThreaded ==
    \A e \in EntityIds :
        LET u == entity[e].last
        IN  entity[e].updates >= 1
            => /\ u.given_context = u.context_before
               /\ u.outcome = "ok" => entity[e]._context = u.raw_context
               /\ u.outcome # "ok" => entity[e]._context = u.context_before
               /\ u.client.kind = "PydanticOllamaClient"
                    => /\ Len(u.generation.requests) >= 1
                       /\ \A i \in DOMAIN u.generation.requests :
                             u.generation.requests[i].context = u.given_context

\* C28: an entity calls get_ollama_client at most once, at the first access
\* to ollama_client, and the client it then holds is never replaced, whatever
\* accesses and updates follow.
C28_ClientConstructedOnce ==
    /\ [](\A e \in EntityIds :
            /\ entity[e].factory_calls <= 1
            /\ entity[e].factory_calls = 1 <=> entity[e].ollama_client # NoClient
            /\ entity[e].updates >= 1 => entity[e].last.client = entity[e].ollama_client)
    /\ [][\A e \in EntityIds :
            entity[e].ollama_client # NoClient
                => /\ entity'[e].ollama_client = entity[e].ollama_client
                   /\ entity'[e].factory_calls = entity[e].factory_calls]_vars

\* C28 witness: an entity was updated MaxUpdates times, every update reading
\* ollama_client, and get_ollama_client was called once.
C28_Witness ==
    \E e \in EntityIds :
        /\ entity[e].updates = MaxUpdates
        /\ entity[e].pc = "idle"
        /\ entity[e].factory_calls = 1
        /\ entity[e].ollama_client.serial = 1

\* C29: a TooledOllamaEntity holds, from construction on, one catalog of its
\* class's tools whose callables are bound to that very instance; no step
\* changes it, and every update gives exactly that catalog to generate.
C29_CatalogBuiltOncePerEntity ==
    /\ [](\A e \in EntityIds :
            entity[e].cls = "TooledOllamaEntity"
                => /\ DOMAIN entity[e]._tools.schemas = {"move"}
                   /\ entity[e]._tools.bound_to = e
                   /\ entity[e].updates >= 1
                        => entity[e].last.given_tools = entity[e]._tools)
    /\ [][\A e \in EntityIds :
            Constructed(e) => entity'[e]._tools = entity[e]._tools]_vars

\* C29 witness: two TooledOllamaEntity instances were both updated, each
\* update giving generate the catalog bound to its own entity.
C29_Witness ==
    /\ \A e \in EntityIds :
          /\ entity[e].cls = "TooledOllamaEntity"
          /\ entity[e].updates = MaxUpdates
          /\ entity[e].last.given_tools.bound_to = e
    /\ entity["e1"]._tools # entity["e2"]._tools

\* the JSON text of a value: {"text": "hello"}, {"text": "hi"},
\* {"response": "value"}
RenderJson(v) ==
    CASE v = PyDict("text", "hello")     -> <<"Jhello">>
      [] v = PyDict("text", "hi")        -> <<"Jhi">>
      [] v = PyDict("response", "value") -> <<"Jresp">>

\* the values that conform to the response model
ConformingValues(cls) ==
    {v \in {PyDict("text", "hello"), PyDict("text", "hi"), PyDict("response", "value")} :
        ConformsTo(cls, v)}

CallerContext(r) == IF "context" \in r.kwargs THEN "caller context" ELSE "not sent"

\* the model of the caller: the one passed as model=, the default otherwise
CallerModelOrDefault(r) == IF "model" \in r.kwargs THEN CallerModel ELSE default_model

\* C31: a generate call made with a model and a context at most has made its
\* primary transport call with the caller's prompt, the composed system
\* message, the caller's model (the default model when none is given) and the
\* caller's context; a repair call is made with the repair model, the raw
\* malformed text as prompt and the fix-JSON system prompt with the inlined
\* schema.
C31_TransportCallArguments ==
    \A c \in CallIds :
        LET r == call[c]
        IN  /\ (r.op = "generate" /\ r.kwargs \subseteq {"model", "context"})
               => /\ Len(r.requests) >= 1
                  /\ r.requests[1].prompt = r.prompt
                  /\ r.requests[1].system = system_message(r.system, r.response_model)
                  /\ r.requests[1].model = CallerModelOrDefault(r)
                  /\ r.requests[1].context = CallerContext(r)
            /\ (r.op \in {"generate", "fix_json_response"} /\ r.n_repair >= 1)
               => LET q == r.requests[Len(r.requests)]
                  IN  /\ q.model = json_fix_model
                      /\ q.prompt = r.bad_json
                      /\ q.system = system_prompt(r.response_model)
                      /\ ~HasRef(q.system[2].body)

\* C32: the system message of a generate call's primary request ends with the
\* caller's system text, the JSON-only instruction and the inlined schema, in
\* this order, and starts with the tool-calling section exactly when the call
\* was made with tools.
C32_SystemMessageOrder ==
    \A c \in CallIds :
        LET r == call[c]
        IN  (r.op = "generate" /\ "context" \notin r.kwargs)
            => /\ Len(r.requests) >= 1
               /\ LET sys == r.requests[1].system
                      n   == Len(sys)
                  IN  /\ n >= 3
                      /\ sys[n] = output_schema(r.response_model)
                      /\ ~HasRef(sys[n].body)
                      /\ sys[n - 1] = JsonOnlyInstruction
                      /\ sys[n - 2] = Section("caller", JStr(r.system))
                      /\ ToolsConfigured(r) <=> (n > 3 /\ sys[1] = ToolCallingInstruction)

\* C33: while the generation of an update is awaited, and after it has raised
\* or the update was abandoned at the await, the entity holds the context it
\* held before the update, handle_response has not been called and nothing
\* has been yielded; when handle_response is called the entity already holds
\* the context of the raw response.
C33_FailedUpdateLeavesContext ==
    \A e \in EntityIds :
        LET u == entity[e].last
        IN  /\ u.outcome \notin {"none", "ok"}
               => /\ entity[e]._context = u.context_before
                  /\ ~u.handled
                  /\ ~u.yielded
            /\ u.handled
               => /\ u.outcome = "ok"
                  /\ u.context_at_handle = u.raw_context
                  /\ entity[e]._context = u.raw_context
            /\ u.yielded => u.handled

\* C33 witness: an update succeeded and stored the context of its raw
\* response, the next update was abandoned at its await, and the entity still
\* holds that context.
C33_Witness ==
    \E e \in EntityIds :
        /\ entity[e].updates = 2
        /\ entity[e].pc = "idle"
        /\ entity[e].last.outcome = "CancelledError"
        /\ entity[e].last.context_before = MockContext
        /\ entity[e]._context = MockContext

\* C34: after a call of inline_json_schema_defs the mapping it was given is
\* what it was before the call, and inlining that mapping once more returns
\* the result of the first call.
C34_ArgumentNotModified ==
    \A c \in CallIds :
        LET r == call[c]
        IN  (r.op = "inline_json_schema_defs" /\ r.pc \in Terminal)
            => /\ r.schema_after = r.schema
               /\ r.pc = "returned" => inline_json_schema_defs(r.schema_after) = r.inlined

\* C35: every call of inline_json_schema_defs comes to an end by returning,
\* also when a definition of the schema refers back to itself; the recursion
\* never runs into the interpreter's limit.
C35_InlineTerminates ==
    \A c \in CallIds :
        LET r == call[c]
        IN  (r.op = "inline_json_schema_defs" /\ r.pc \in Terminal)
            => /\ r.pc = "returned"
               /\ r.result.exc # "RecursionError"
               /\ ~IsError(r.inlined)

\* the name the descriptor registered under key advertises
AdvertisedName(r, key) == r.catalog[key].name

\* C36: in every catalog tools_to_schema has built, each descriptor advertises
\* the key it is registered under, so call_tool, given a request with the
\* advertised name, finds an entry and it is the one of that tool's callable.
C36_AdvertisedNameIsKey ==
    \A c \in CallIds :
        LET r == call[c]
        IN  (r.op = "tools_to_schema" /\ r.pc = "returned")
            => \A key \in DOMAIN r.catalog :
                  /\ AdvertisedName(r, key) = key
                  /\ AdvertisedName(r, key) \in DOMAIN r.catalog
                  /\ r.tools[AdvertisedName(r, key)] = r.tools[key]
                  /\ call_tool(DOMAIN r.catalog,
                               ToolCallRequest(AdvertisedName(r, key), "city=Paris")
                              ).invocations # <<>>

\* C37: the catalog of an entity of a tooled class has one entry for each
\* @tool method defined in the body of that class and no other entry: none
\* for a method without the mark, none for a @tool method of a base class.
C37_CatalogOfOwnMarkedMethods ==
    \A e \in EntityIds :
        entity[e].cls \in TooledClasses
            => LET catalog == entity[e]._tools.schemas
                   body    == ClassDict(entity[e].cls)
               IN  /\ \A key \in DOMAIN body : key \in DOMAIN catalog <=> body[key]
                   /\ \A key \in DOMAIN catalog : key \in DOMAIN body
                   /\ InheritedToolKeys(entity[e].cls) \cap DOMAIN catalog = {}

\* C37 witness: an entity of the subclass, which inherits the @tool method
\* move and defines look, has a catalog with look alone.
C37_Witness ==
    \E e \in EntityIds :
        /\ entity[e].cls = "Explorer"
        /\ InheritedToolKeys("Explorer") = {"move"}
        /\ DOMAIN entity[e]._tools.schemas = {"look"}

\* the quantity of an item an inventory holds, summed over its entries
RECURSIVE QuantityFrom(_, _, _)
QuantityFrom(inv, name, k) ==
    IF k > Len(inv) THEN 0
    ELSE (IF inv[k].name = name THEN inv[k].quantity ELSE 0) + QuantityFrom(inv, name, k + 1)

\* the quantity of an item the two actors hold together
TotalOf(invs, name) ==
    QuantityFrom(invs.self, name, 1) + QuantityFrom(invs.other_actor, name, 1)

\* C38: whenever complete_trade has run, called directly or by handle_event,
\* the two actors together hold of each item what they held before, and no
\* entry of either inventory has a negative quantity.
C38_TradeConservesItems ==
    trade.executions >= 1
        => /\ \A name \in ItemNames :
                 TotalOf(trade.inventory, name) = TotalOf(trade.before, name)
           /\ \A a \in TradingActors : \A i \in DOMAIN trade.inventory[a] :
                 trade.inventory[a][i].quantity >= 0

\* C39: handling one TradeEvent addressed to the actor asks decide_trade at
\* most once and runs complete_trade at most once.
C39_TradeEventHandledOnce ==
    trade.pc \in {"handled", "raised"}
        => /\ Len(trade.decisions) <= 1
           /\ trade.executions <= 1

====
